---- MODULE Spec2Model ----
(***************************************************************************)
(* A model of dejavu's CockroachDB fingerprint store                       *)
(* (dejavu/database_handler/cockroach_database.py), of the buffer          *)
(* recognizer adapter (dejavu/logic/recognizer/buffer_recognizer.py,       *)
(* dejavu/logic/decoder.py) and of the fingerprint hasher and              *)
(* matcher/aligner they feed.  The hasher, the matcher and the recognizer  *)
(* core are not among the source files; they are modelled from sections    *)
(* 4.3, 4.5 and 4.6 of the specification and marked so where defined.      *)
(*                                                                         *)
(* Three specifications share the module:                                  *)
(*   Spec           the store: insert_song, insert_hashes, after_fork and  *)
(*                  the Cursor context manager with its connection cache;  *)
(*   SpecRecognize  one recognition request against a store the inserts    *)
(*                  can have produced;                                     *)
(*   SpecHasher     the fingerprint hasher applied to a list of peaks.     *)
(***************************************************************************)
EXTENDS Integers, Sequences, FiniteSets, TLC

VARIABLES
    \* ---- the store (cockroach_database.py)
    songs,          \* committed rows of the songs table: the set of song ids
    fingerprints,   \* committed rows of the fingerprints table
    conns,          \* every connection opened so far, in order, with its fate
    classCache,     \* the class attribute Cursor._cache: "unset" or a queue
    last,           \* what the latest store call did (a record of the call)
    \* ---- one recognition request (buffer_recognizer.py and the core)
    pc,             \* position of the request
    request,        \* the request being served
    fps,            \* merged query fingerprint set: pairs <<hash, offset>>
    mapper,         \* hash -> query offset
    pending,        \* query hashes not yet sent to the store
    queried,        \* query_many has been called for the request
    rows,           \* rows returned so far, concatenated in arrival order
    result,         \* the ranked match list
    error,          \* the error the request ended with, or "none"
    chunkFailed,    \* the store failed on some chunk of this request
    \* ---- the hasher (specification 4.3)
    hpc,            \* position of the hasher run
    peaks,          \* its input: the ordered peak list
    hashed,         \* its output: the deduplicated fingerprint list
    hmap            \* the matcher's hash -> query offset mapping built from it

storeVars == <<songs, fingerprints, conns, classCache, last>>
recVars == <<pc, request, fps, mapper, pending, queried, rows, result, error, chunkFailed>>
hashVars == <<hpc, peaks, hashed, hmap>>
vars == <<songs, fingerprints, conns, classCache, last,
          pc, request, fps, mapper, pending, queried, rows, result, error, chunkFailed,
          hpc, peaks, hashed, hmap>>

(***************************************************************************)
(* Bounds of the model.                                                    *)
(***************************************************************************)
\* song ids are 1..MaxSongs (the code draws a uuid per inserted song)
MaxSongs == 2
\* longest list of (hash, offset) pairs passed to one insert_hashes call
MaxValues == 1
\* connections opened in one behaviour (every store call opens one)
MaxConns == 3

SongIds == 1..MaxSongs
\* offsets (time-frame indices); diffs then range over -1, 0, 1
Offsets == {0, 1}
Diffs == {-1, 0, 1}

(***************************************************************************)
(* Hashes.  A hash reaches the store as a hexadecimal string (the          *)
(* fingerprinter cuts it from a sha1 hexdigest, so in lower case), is      *)
(* stored as BYTEA through decode(%s, 'hex') and comes back through        *)
(* upper(encode(hash, 'hex')).  A string is a sequence of one-character    *)
(* strings; a byte string is a sequence of numbers 0..255.                 *)
(***************************************************************************)
HexLower == <<"0", "1", "2", "3", "4", "5", "6", "7",
              "8", "9", "a", "b", "c", "d", "e", "f">>
HexUpper == <<"0", "1", "2", "3", "4", "5", "6", "7",
              "8", "9", "A", "B", "C", "D", "E", "F">>

DigitVal(c) == (CHOOSE i \in 1..16 : HexLower[i] = c \/ HexUpper[i] = c) - 1

\* decode(h, 'hex'): two digits a byte, either case
RECURSIVE DecodeHex(_)
DecodeHex(h) ==
    IF Len(h) < 2 THEN <<>>
    ELSE <<16 * DigitVal(h[1]) + DigitVal(h[2])>> \o DecodeHex(SubSeq(h, 3, Len(h)))

\* upper(encode(b, 'hex'))
RECURSIVE UpperEncodeHex(_)
UpperEncodeHex(b) ==
    IF b = <<>> THEN <<>>
    ELSE <<HexUpper[(b[1] \div 16) + 1], HexUpper[(b[1] % 16) + 1]>>
         \o UpperEncodeHex(Tail(b))

\* str.upper() of a hexadecimal string
Upper(h) == UpperEncodeHex(DecodeHex(h))

\* the hexadecimal strings the model's fingerprinter produces
Hashes == {<<"0", "a">>, <<"a", "0">>, <<"a", "a">>}

\* the (hash, offset) pairs an insert or a query is built from
Pairs == Hashes \X Offsets

\* the sequences over S of length 0..n
SeqsUpTo(S, n) == UNION {[1..k -> S] : k \in 0..n}

Range(s) == {s[i] : i \in DOMAIN s}

(***************************************************************************)
(* The fingerprints table (CREATE_FINGERPRINTS_TABLE).  A row is           *)
(* [hash, song_id, offset], hash a byte string.                            *)
(***************************************************************************)
Row(song_id, hsh, offset) == [hash |-> DecodeHex(hsh), song_id |-> song_id, offset |-> offset]

\* "hash" BYTEA PRIMARY KEY: no two rows with one hash
PrimaryKeyConflict(table, row) == \E r \in table : r.hash = row.hash

\* CONSTRAINT uq_fingerprints UNIQUE (song_id, offset, hash)
UniqueConflict(table, row) == row \in table

Conflict(table, row) == PrimaryKeyConflict(table, row) \/ UniqueConflict(table, row)

\* FOREIGN KEY (song_id) REFERENCES songs(song_id)
ForeignKeyOk(songtable, row) == row.song_id \in songtable

\* INSERT_FINGERPRINT without its ON CONFLICT clause: a conflicting row is an error
InsertRowNoOnConflict(st, songtable, row) ==
    IF st.error # "none" THEN st
    ELSE IF Conflict(st.table, row) THEN [st EXCEPT !.error = "IntegrityError"]
    ELSE IF ~ForeignKeyOk(songtable, row) THEN [st EXCEPT !.error = "IntegrityError"]
    ELSE [st EXCEPT !.table = @ \cup {row}]

\* INSERT_FINGERPRINT for one row of VALUES: ON CONFLICT DO NOTHING names no
\* constraint, so a conflict on any unique index skips the row; a row that is
\* inserted must satisfy the foreign key.  st is [table, error].
InsertRow(st, songtable, row) ==
    IF st.error # "none" THEN st
    ELSE IF Conflict(st.table, row) THEN st
    ELSE IF ~ForeignKeyOk(songtable, row) THEN [st EXCEPT !.error = "IntegrityError"]
    ELSE [st EXCEPT !.table = @ \cup {row}]

\* one INSERT statement over its VALUES rows, in order
RECURSIVE InsertRows(_, _, _)
InsertRows(st, songtable, values) ==
    IF values = <<>> THEN st
    ELSE InsertRows(InsertRow(st, songtable, Row(values[1][1], values[1][2], values[1][3])),
                    songtable, Tail(values))

\* execute_values(cur, INSERT_FINGERPRINT, values, template): psycopg2 sends a
\* page of up to 100 rows per statement, so the model's short lists go in one
\* statement.  fault is an error the driver raises instead of running the
\* statement ("none": no fault).  A statement that fails leaves none of its
\* rows.  The result is [table, error]: the table as the transaction sees it
\* and the exception that left the block.
execute_values(table, songtable, values, fault) ==
    IF fault # "none" THEN [table |-> table, error |-> fault]
    ELSE LET after == InsertRows([table |-> table, error |-> "none"], songtable, values)
         IN  IF after.error # "none" THEN [table |-> table, error |-> after.error]
             ELSE after

(***************************************************************************)
(* The Cursor context manager and its connection cache.                    *)
(***************************************************************************)
\* queue.Queue(maxsize=5)
CacheMaxSize == 5

\* psycopg2.DatabaseError and the subclasses the model raises
DatabaseErrors == {"DatabaseError", "OperationalError", "IntegrityError"}

\* Cursor.__init__: self._cache = queue.Queue(maxsize=5) binds a new, empty
\* queue on the instance, whatever the class attribute holds
InstanceCache(cls) == <<>>

\* Cursor.__init__: get_nowait() on the cursor's queue; queue.Empty leads to
\* psycopg2.connect.  The result is [fromCache, cache]: whether the
\* connection came off the queue, and the queue afterwards.
CursorInit(cls) ==
    LET q == InstanceCache(cls)
    IN  IF q # <<>> THEN [fromCache |-> TRUE, cache |-> Tail(q)]
        ELSE [fromCache |-> FALSE, cache |-> q]

\* connection.commit(): COMMIT of a transaction the server has aborted ends it
\* as a rollback
Commit(committed, pendingState, aborted) == IF aborted THEN committed ELSE pendingState

\* a Cursor.__exit__ that returns a true value: the exception of the block is
\* suppressed and the caller sees nothing
CursorExitSuppress(extype, cache) ==
    [surfaced |-> "none",
     txn |-> IF extype \in DatabaseErrors THEN "rolled_back" ELSE "committed",
     conn |-> IF Len(cache) < CacheMaxSize THEN "instance_queue" ELSE "closed"]

\* Cursor.__exit__(extype, ...) after a block that left with extype ("none":
\* no exception).  `extype is psycopg2.DatabaseError` is true of that class
\* alone, and a psycopg2 cursor has no rollback(): the call raises
\* AttributeError and the rest of __exit__ is skipped.  Otherwise the cursor
\* is closed, the connection committed and put on the cursor's queue, or closed
\* when the queue is full; __exit__ returns None, so extype propagates.
\* The result: the exception the caller sees, what became of the transaction
\* and what became of the connection.
CursorExit(extype, cache) ==
    IF extype = "DatabaseError"
    THEN [surfaced |-> "AttributeError", txn |-> "open", conn |-> "in_transaction"]
    ELSE [surfaced |-> extype,
          txn |-> IF extype \in DatabaseErrors THEN "rolled_back" ELSE "committed",
          conn |-> IF Len(cache) < CacheMaxSize THEN "instance_queue" ELSE "closed"]

\* the errors the driver can raise at a statement, and "none"
Faults == {"none", "DatabaseError", "OperationalError"}

\* The record of a call: the operation, the arguments of an insert_hashes that
\* returned (0 and <<>> otherwise), the exception that left the with block, the
\* exception the caller saw, what became of the transaction, whether the
\* connection came off a queue, whether a connection had been put back on a
\* queue before, whether the call repeats the one before it, and whether the
\* committed tables differ from before the call.
NoCall == [op |-> "none", song_id |-> 0, hashes |-> <<>>, extype |-> "none",
           surfaced |-> "none", txn |-> "none", fromCache |-> FALSE, hadIdle |-> FALSE,
           repeat |-> FALSE, changed |-> FALSE]

\* connections a Cursor's exit put back on a queue
Idle == {i \in DOMAIN conns : conns[i] = "instance_queue"}

(***************************************************************************)
(* The store's operations.                                                 *)
(***************************************************************************)
\* CockroachdbSQLDatabase.insert_song: INSERT_SONG ... RETURNING song_id inside
\* `with self.cursor() as cur`.  The model's uuid is the least unused id.
insert_song(fault) ==
    /\ Len(conns) < MaxConns
    /\ Cardinality(songs) < MaxSongs
    /\ LET cur == CursorInit(classCache)
           id == CHOOSE i \in SongIds \ songs : \A j \in SongIds \ songs : i <= j
           pend == IF fault = "none" THEN songs \cup {id} ELSE songs
           ex == CursorExit(fault, cur.cache)
       IN  /\ songs' = IF ex.txn = "open" THEN songs
                       ELSE Commit(songs, pend, fault \in DatabaseErrors)
           /\ conns' = Append(conns, ex.conn)
           /\ last' = [op |-> "insert_song", song_id |-> id, hashes |-> <<>>,
                       extype |-> fault, surfaced |-> ex.surfaced, txn |-> ex.txn,
                       fromCache |-> cur.fromCache, hadIdle |-> Idle # {},
                       repeat |-> FALSE, changed |-> songs' # songs]
    /\ UNCHANGED <<fingerprints, classCache>>

\* CockroachdbSQLDatabase.insert_hashes(song_id, hashes): the values are built,
\* then execute_values runs inside `with self.cursor() as cur`.
insert_hashes(song_id, hashes, fault) ==
    /\ Len(conns) < MaxConns
    /\ LET values == [i \in 1..Len(hashes) |-> <<song_id, hashes[i][1], hashes[i][2]>>]
           cur == CursorInit(classCache)
           body == execute_values(fingerprints, songs, values, fault)
           ex == CursorExit(body.error, cur.cache)
       IN  /\ fingerprints' = IF ex.txn = "open" THEN fingerprints
                              ELSE Commit(fingerprints, body.table,
                                          body.error \in DatabaseErrors)
           /\ conns' = Append(conns, ex.conn)
           /\ last' = [op |-> "insert_hashes",
                       song_id |-> IF ex.surfaced = "none" THEN song_id ELSE 0,
                       hashes |-> IF ex.surfaced = "none" THEN hashes ELSE <<>>,
                       extype |-> body.error, surfaced |-> ex.surfaced, txn |-> ex.txn,
                       fromCache |-> cur.fromCache, hadIdle |-> Idle # {},
                       repeat |-> /\ last.op = "insert_hashes"
                                  /\ last.surfaced = "none"
                                  /\ last.song_id = song_id
                                  /\ last.hashes = hashes,
                       changed |-> fingerprints' # fingerprints]
    /\ UNCHANGED <<songs, classCache>>

\* CockroachdbSQLDatabase.after_fork -> Cursor.clear_cache: the class
\* attribute is bound to a new, empty queue
after_fork ==
    /\ classCache' = <<>>
    /\ last' = [NoCall EXCEPT !.op = "after_fork"]
    /\ UNCHANGED <<songs, fingerprints, conns>>

(***************************************************************************)
(* The store's batch query.  SELECT_MULTIPLE is the statement of the       *)
(* source; the query_many call around it lives in the store's base class,  *)
(* which is not among the source files, and follows specification 4.4.     *)
(***************************************************************************)
\* SELECT_MULTIPLE with WHERE hash = ... in place of WHERE hash IN (...):
\* the rows of one hash of the list
SelectOneHash(table, hashes) ==
    IF hashes = {} THEN {}
    ELSE LET h == CHOOSE x \in hashes : TRUE
         IN  {<<UpperEncodeHex(r.hash), r.song_id, r.offset>> :
                 r \in {x \in table : x.hash = DecodeHex(h)}}

\* SELECT_MULTIPLE: upper(encode(hash, 'hex')), song_id, offset of the rows
\* WHERE hash IN (decode(%s, 'hex'), ...).  The set of rows; the statement
\* has no ORDER BY, so they arrive in any order.
SELECT_MULTIPLE(table, hashes) ==
    {<<UpperEncodeHex(r.hash), r.song_id, r.offset>> :
        r \in {x \in table : \E h \in hashes : x.hash = DecodeHex(h)}}

\* the orders a set of rows can arrive in
Orders(S) == {q \in [1..Cardinality(S) -> S] : Range(q) = S}

\* query_many(hashes) (specification 4.4): SELECT_MULTIPLE inside
\* `with self.cursor() as cur`; fault is the error the driver raises at the
\* statement.  [error, rows]: the exception the caller sees and the rows.
query_many(table, hashes, fault) ==
    LET cur == CursorInit(classCache)
        ex == CursorExit(fault, cur.cache)
    IN  [error |-> ex.surfaced,
         rows |-> IF fault = "none" THEN SELECT_MULTIPLE(table, hashes) ELSE {}]

(***************************************************************************)
(* The matcher/aligner (specification 4.5).                                *)
(***************************************************************************)
\* most hashes one query_many call takes (implementation-defined, 4.4)
MaxBatch == 2
\* channels of one recording
MaxChannels == 3

\* the fingerprint sets one channel yields in the model: none or one
\* fingerprint, so that the channels of a recording merge into any set of up
\* to MaxChannels fingerprints
ChannelSets == {{}} \cup {{p} : p \in Pairs}

\* what fingerprinting one channel can give
ChannelOutcomes ==
    {[raised |-> "InsufficientSamples", fps |-> {}]}
    \cup {[raised |-> "none", fps |-> S] : S \in ChannelSets}

QueryHashes(F) == {p[1] : p \in F}

\* step 2: the mappings hash -> query offset a fingerprint set admits, keyed
\* by the hash as the store returns it; a hash that occurs at several offsets
\* keeps one of them
Mappings(F) ==
    {m \in [{Upper(h) : h \in QueryHashes(F)} -> Offsets] :
        \A k \in DOMAIN m : \E p \in F : Upper(p[1]) = k /\ p[2] = m[k]}

\* step 3: diff = stored_offset - query_offset of a row
Diff(m, row) == row[3] - m[row[1]]

Bin(m, row) == <<row[2], Diff(m, row)>>

\* a histogram that counts a bin's latest run of adjacent rows only (grouping
\* rows that were never sorted)
RECURSIVE BinCountRuns(_, _, _)
BinCountRuns(m, rowseq, bin) ==
    IF rowseq = <<>> THEN 0
    ELSE LET n == Len(rowseq)
             front == SubSeq(rowseq, 1, n - 1)
         IN  IF Bin(m, rowseq[n]) # bin THEN BinCountRuns(m, front, bin)
             ELSE IF n > 1 /\ Bin(m, rowseq[n - 1]) = bin
                  THEN 1 + BinCountRuns(m, front, bin)
                  ELSE 1

\* step 3: the count of one (song, diff) bin after every row has incremented
\* its bin, rows taken in arrival order
RECURSIVE BinCount(_, _, _)
BinCount(m, rowseq, bin) ==
    IF rowseq = <<>> THEN 0
    ELSE (IF Bin(m, rowseq[1]) = bin THEN 1 ELSE 0) + BinCount(m, Tail(rowseq), bin)

Bins(m, rowseq) == {Bin(m, rowseq[i]) : i \in DOMAIN rowseq}

MatchedSongs(rowseq) == {rowseq[i][2] : i \in DOMAIN rowseq}

Abs(x) == IF x < 0 THEN -x ELSE x

\* step 4: a song's match strength, the count of its fullest bin
Strength(m, rowseq, song) ==
    LET counts == {BinCount(m, rowseq, b) : b \in {x \in Bins(m, rowseq) : x[1] = song}}
    IN  CHOOSE c \in counts : \A d \in counts : d <= c

\* step 4: the diffs the tie rule leaves for a song: fullest bins, and among
\* them the smallest absolute diff
BestDiffs(m, rowseq, song) ==
    LET full == {b[2] : b \in {x \in Bins(m, rowseq) :
                        x[1] = song /\ BinCount(m, rowseq, x) = Strength(m, rowseq, song)}}
    IN  {d \in full : \A e \in full : Abs(d) <= Abs(e)}

\* steps 4 and 6: song s comes before song t: greater strength, and the
\* smaller identifier among equals
Before(m, rowseq, s, t) ==
    \/ Strength(m, rowseq, s) > Strength(m, rowseq, t)
    \/ Strength(m, rowseq, s) = Strength(m, rowseq, t) /\ s <= t

\* steps 5 and 6: the ranked list over the songs S, each with its
\* confidence count / total and the aligned offset pick[song]
RECURSIVE Ranked(_, _, _, _, _)
Ranked(m, rowseq, S, total, pick) ==
    IF S = {} THEN <<>>
    ELSE LET s == CHOOSE x \in S : \A t \in S : Before(m, rowseq, x, t)
         IN  <<[song_id |-> s, count |-> Strength(m, rowseq, s), total |-> total,
                offset |-> pick[s]]>>
             \o Ranked(m, rowseq, S \ {s}, total, pick)

\* the ranked lists the algorithm allows for these rows
align_matches(m, rowseq, total) ==
    LET S == MatchedSongs(rowseq)
    IN  {Ranked(m, rowseq, S, total, pick) :
            pick \in {f \in [S -> Diffs] :
                         \A s \in S : f[s] \in BestDiffs(m, rowseq, s)}}

(***************************************************************************)
(* The recognizer.  recognize_buffer is the source's buffer adapter; the   *)
(* core it hands over to (specification 4.6) is not among the source files.*)
(***************************************************************************)
\* def read_from_buffer(buffer, frame_rate, sample_width, audio_channels, limit=None)
RequiredPositional == 4

\* read_from_buffer(*args): a call that leaves a required parameter unbound
\* raises TypeError before the body runs
read_from_buffer(args) == IF Len(args) < RequiredPositional THEN "TypeError" ELSE "none"

\* what a buffer holds: fewer samples than one analysis window, or more
BufferKinds == {"short", "audio"}

\* a request: the adapter it came through, what its buffer holds, and the
\* channels still to fingerprint
NoRequest == [kind |-> "none", content |-> "none", remaining |-> 0]

\* Dejavu.recognize builds a recognizer for each request: a recognizer
\* serves one request, from "idle" to "done" or "failed"
Starting == pc = "idle"

\* BufferRecognizer.recognize -> recognize_buffer(content):
\* decoder.read_from_buffer(content, self.dejavu.limit), then the core's
\* _recognize(*channels)
recognize_buffer(content, limit) ==
    /\ Starting
    /\ UNCHANGED <<fps, mapper, pending, queried, rows, result, chunkFailed>>
    /\ LET raised == read_from_buffer(<<content, limit>>)
       IN  IF raised # "none"
           THEN /\ pc' = "failed"
                /\ error' = raised
                /\ request' = [NoRequest EXCEPT !.kind = "buffer", !.content = content]
           ELSE /\ pc' = "fingerprinting"
                /\ error' = "none"
                /\ request' = [NoRequest EXCEPT !.kind = "buffer", !.content = content,
                                                !.remaining = 1]

\* the core's entry (4.6): channel data that is structurally invalid (no
\* channel) fails with DecodeUpstreamError
recognize(nchan) ==
    /\ Starting
    /\ UNCHANGED <<fps, mapper, pending, queried, rows, result, chunkFailed>>
    /\ request' = [NoRequest EXCEPT !.kind = "core", !.content = "audio",
                                    !.remaining = nchan]
    /\ IF nchan = 0
       THEN pc' = "failed" /\ error' = "DecodeUpstreamError"
       ELSE pc' = "fingerprinting" /\ error' = "none"

\* 4.6, one channel: spectrogram -> peaks -> hashes, merged by union.
\* outcome is what fingerprinting the channel gives: InsufficientSamples
\* raised (4.1; 7: zero fingerprints for the channel) or a fingerprint set.
\* After the last channel an empty merged set ends the request with an empty
\* result; otherwise the query begins.
fingerprint_channel(outcome) ==
    /\ pc = "fingerprinting"
    /\ request.remaining > 0
    /\ LET got == IF outcome.raised = "InsufficientSamples" THEN {} ELSE outcome.fps
           merged == fps \cup got
           n == request.remaining - 1
       IN  /\ fps' = merged
           /\ request' = [request EXCEPT !.remaining = n]
           /\ IF n > 0 THEN pc' = "fingerprinting" /\ pending' = {}
              ELSE IF merged = {} THEN pc' = "done" /\ pending' = {}
              ELSE pc' = "querying" /\ pending' = QueryHashes(merged)
    /\ UNCHANGED <<mapper, queried, rows, result, error, chunkFailed>>

\* 4.5 step 1, one chunk: query_many on hashes not yet sent; its rows are
\* appended in the order they arrive.  A failed query ends the request with
\* StoreUnavailable (4.4, 7): the exception unwinds the call, the rows
\* gathered so far go with it, and the hashes of the failed chunk stay unsent.
query_chunk(chunk, fault, order) ==
    /\ pc = "querying"
    /\ chunk # {} /\ chunk \subseteq pending /\ Cardinality(chunk) <= MaxBatch
    /\ LET ans == query_many(fingerprints, chunk, fault)
       IN  /\ queried' = TRUE
           /\ chunkFailed' = (chunkFailed \/ fault # "none")
           /\ IF ans.error # "none"
              THEN /\ pc' = "failed"
                   /\ error' = "StoreUnavailable"
                   /\ order = <<>>
                   /\ rows' = <<>>
                   /\ pending' = pending
              ELSE /\ order \in Orders(ans.rows)
                   /\ rows' = rows \o order
                   /\ pending' = pending \ chunk
                   /\ pc' = IF pending' = {} THEN "aligning" ELSE "querying"
                   /\ error' = "none"
    /\ UNCHANGED <<request, fps, mapper, result>>

\* 4.5 steps 2 to 6
align ==
    /\ pc = "aligning"
    /\ \E m \in Mappings(fps) :
          /\ mapper' = m
          /\ result' \in align_matches(m, rows, Cardinality(fps))
    /\ pc' = "done"
    /\ UNCHANGED <<request, fps, pending, queried, rows, error, chunkFailed>>

(***************************************************************************)
(* The fingerprint hasher (specification 4.3) and the mapping the matcher  *)
(* builds from its output (4.5 step 2).  Neither is among the source       *)
(* files.  A peak is <<time-frame index, frequency-bin index>>.            *)
(***************************************************************************)
\* time-frame indices of the peaks are 0..MaxTime
MaxTime == 1
\* frequency-bin indices of the peaks are 0..MaxFreq
MaxFreq == 2
\* peaks of one channel
MaxPeaks == 4

\* configuration (4.3): fan-out factor, time-delta window, minimum
\* frequency-delta, bit width the digest is cut to
FanOut == 2
MinTimeDelta == 0
MaxTimeDelta == 1
MinFreqDelta == 0
HashBits == 3

PeakPoints == (0..MaxTime) \X (0..MaxFreq)

\* 4.2: peaks ordered by time-frame index, then by frequency-bin index
PeakBefore(p, q) == p[1] < q[1] \/ (p[1] = q[1] /\ p[2] <= q[2])

RECURSIVE SortedPeaks(_)
SortedPeaks(S) ==
    IF S = {} THEN <<>>
    ELSE LET p == CHOOSE x \in S : \A y \in S : PeakBefore(x, y)
         IN  <<p>> \o SortedPeaks(S \ {p})

PeakLists == {SortedPeaks(S) : S \in {T \in SUBSET PeakPoints : Cardinality(T) <= MaxPeaks}}

\* the digest of (anchor frequency, target frequency, time-delta), cut to
\* HashBits bits.  The cryptographic digest is modelled by an injective code
\* of the triple; cutting it keeps the low bits, so distinct triples collide.
Digest(f1, f2, dt) == (f1 * 16 + f2 * 4 + dt) % (2 ^ HashBits)

\* anchor and target make a pair: the target lies in the time-delta window
\* and its frequency differs from the anchor's by more than the minimum
ValidPair(anchor, target) ==
    /\ target[1] - anchor[1] >= MinTimeDelta
    /\ target[1] - anchor[1] <= MaxTimeDelta
    /\ Abs(target[2] - anchor[2]) > MinFreqDelta

\* the fingerprints of anchor i paired with the peaks j, j+1, ... up to FanOut
\* peaks after it: <<hash, offset>>, the offset the anchor's time-frame index
RECURSIVE AnchorPairs(_, _, _)
AnchorPairs(peaklist, i, j) ==
    IF j > Len(peaklist) \/ j > i + FanOut THEN <<>>
    ELSE (IF ValidPair(peaklist[i], peaklist[j])
          THEN <<<<Digest(peaklist[i][2], peaklist[j][2], peaklist[j][1] - peaklist[i][1]),
                   peaklist[i][1]>>>>
          ELSE <<>>)
         \o AnchorPairs(peaklist, i, j + 1)

\* every anchor in turn, in generation order
RECURSIVE Emit(_, _)
Emit(peaklist, i) ==
    IF i > Len(peaklist) THEN <<>>
    ELSE AnchorPairs(peaklist, i, i + 1) \o Emit(peaklist, i + 1)

\* no deduplication at all
NoDedup(fingerprintlist) == fingerprintlist

\* deduplication by (hash, offset): each pair is kept once
RECURSIVE Dedup(_)
Dedup(fingerprintlist) ==
    IF fingerprintlist = <<>> THEN <<>>
    ELSE LET n == Len(fingerprintlist)
             front == Dedup(SubSeq(fingerprintlist, 1, n - 1))
         IN  IF fingerprintlist[n] \in Range(front) THEN front
             ELSE Append(front, fingerprintlist[n])

\* the hasher: the deduplicated fingerprints of a peak list
generate_hashes(peaklist) == Dedup(Emit(peaklist, 1))

\* 4.5 step 2: the mappings hash -> query offset a fingerprint list admits;
\* a hash that occurs at several offsets keeps one of them
HashMappings(fingerprintlist) ==
    LET F == Range(fingerprintlist)
    IN  {m \in [{p[1] : p \in F} -> 0..MaxTime] :
            \A k \in DOMAIN m : <<k, m[k]>> \in F}

hash_peaks ==
    /\ hpc = "idle"
    /\ hashed' = generate_hashes(peaks)
    /\ hpc' = "hashed"
    /\ UNCHANGED <<peaks, hmap>>

build_mapping ==
    /\ hpc = "hashed"
    /\ hmap' \in HashMappings(hashed)
    /\ hpc' = "mapped"
    /\ UNCHANGED <<peaks, hashed>>

StoreInit ==
    /\ songs = {}
    /\ fingerprints = {}
    /\ conns = <<>>
    /\ classCache = "unset"
    /\ last = NoCall

Init ==
    /\ StoreInit
    /\ pc = "idle" /\ request = NoRequest /\ fps = {} /\ mapper = <<>> /\ pending = {}
    /\ queried = FALSE /\ rows = <<>> /\ result = <<>> /\ error = "none"
    /\ chunkFailed = FALSE
    /\ hpc = "idle" /\ peaks = <<>> /\ hashed = <<>> /\ hmap = <<>>

Next ==
    \/ \E f \in Faults : insert_song(f) /\ UNCHANGED <<recVars, hashVars>>
    \/ \E s \in SongIds, h \in SeqsUpTo(Pairs, MaxValues), f \in Faults :
          insert_hashes(s, h, f) /\ UNCHANGED <<recVars, hashVars>>
    \/ after_fork /\ UNCHANGED <<recVars, hashVars>>

Spec == Init /\ [][Next]_vars

\* the fingerprints tables the inserts can leave: one row a hash at most
Stores ==
    {T \in SUBSET [hash : {DecodeHex(h) : h \in Hashes}, song_id : SongIds,
                   offset : Offsets] :
        \A r1, r2 \in T : r1.hash = r2.hash => r1 = r2}

RecInit ==
    /\ fingerprints \in Stores
    /\ songs = {r.song_id : r \in fingerprints}
    /\ conns = <<>> /\ classCache = "unset" /\ last = NoCall
    /\ pc = "idle" /\ request = NoRequest /\ fps = {} /\ mapper = <<>> /\ pending = {}
    /\ queried = FALSE /\ rows = <<>> /\ result = <<>> /\ error = "none"
    /\ chunkFailed = FALSE
    /\ hpc = "idle" /\ peaks = <<>> /\ hashed = <<>> /\ hmap = <<>>

RecNext ==
    \/ \E c \in BufferKinds, l \in {0} :
          recognize_buffer(c, l) /\ UNCHANGED <<storeVars, hashVars>>
    \/ \E n \in 0..MaxChannels : recognize(n) /\ UNCHANGED <<storeVars, hashVars>>
    \/ \E o \in ChannelOutcomes :
          fingerprint_channel(o) /\ UNCHANGED <<storeVars, hashVars>>
    \/ \E c \in SUBSET pending, f \in Faults :
          \E o \in {<<>>} \cup Orders(SELECT_MULTIPLE(fingerprints, c)) :
              query_chunk(c, f, o) /\ UNCHANGED <<storeVars, hashVars>>
    \/ align /\ UNCHANGED <<storeVars, hashVars>>

SpecRecognize == RecInit /\ [][RecNext]_vars

HasherInit ==
    /\ StoreInit
    /\ pc = "idle" /\ request = NoRequest /\ fps = {} /\ mapper = <<>> /\ pending = {}
    /\ queried = FALSE /\ rows = <<>> /\ result = <<>> /\ error = "none"
    /\ chunkFailed = FALSE
    /\ hpc = "idle" /\ peaks \in PeakLists /\ hashed = <<>> /\ hmap = <<>>

HasherNext ==
    \/ hash_peaks /\ UNCHANGED <<storeVars, recVars>>
    \/ build_mapping /\ UNCHANGED <<storeVars, recVars>>

SpecHasher == HasherInit /\ [][HasherNext]_vars

(***************************************************************************)
(* Properties of the store (Spec).                                         *)
(***************************************************************************)
StoreOps == {"insert_song", "insert_hashes"}

\* C1: an insert_hashes call that repeats the call before it, with the same
\* song and the same (hash, offset) list, leaves the committed tables as they
\* were, and unless the driver itself fails it returns without an error.
C1_InsertIdempotent ==
    (last.op = "insert_hashes" /\ last.repeat) =>
        /\ ~last.changed
        /\ last.extype \notin Faults \ {"none"} => last.surfaced = "none"

C1_Witness ==
    /\ last.op = "insert_hashes" /\ last.repeat
    /\ last.surfaced = "none"
    /\ last.hashes # <<>>
    /\ \A i \in DOMAIN last.hashes :
          Row(last.song_id, last.hashes[i][1], last.hashes[i][2]) \in fingerprints

\* C2: the store is keyed by the triple (hash, song, offset): after an
\* insert_hashes call that returned without error, every (hash, offset) pair
\* it was given is stored for its song, whatever rows share the hash.
C2_TripleKeyed ==
    (last.op = "insert_hashes" /\ last.surfaced = "none") =>
        \A i \in DOMAIN last.hashes :
            Row(last.song_id, last.hashes[i][1], last.hashes[i][2]) \in fingerprints

\* C9: when the block of a Cursor leaves with a database error, the exit
\* rolls the transaction back, nothing of the block is committed, and the
\* caller sees that database error.
C9_RollbackOnDatabaseError ==
    (last.op \in StoreOps /\ last.extype \in DatabaseErrors) =>
        /\ last.txn = "rolled_back"
        /\ ~last.changed
        /\ last.surfaced = last.extype

\* C10: a store operation takes its connection from the cache whenever an
\* earlier operation of the process has returned one to it (no fork having
\* emptied the cache since), and at most CacheMaxSize connections are idle.
C10_CacheReuse ==
    /\ (last.op \in StoreOps /\ last.hadIdle /\ classCache = "unset") => last.fromCache
    /\ Cardinality(Idle) <= CacheMaxSize

(***************************************************************************)
(* Properties of a recognition request (SpecRecognize).                    *)
(***************************************************************************)
\* the rows one unchunked query for the request's hashes returns
Unchunked(hashes) == SELECT_MULTIPLE(fingerprints, hashes)

\* C3: the rows gathered chunk by chunk are the rows of one query for all the
\* hashes sent so far, each row once; when the last chunk is in, they are the
\* rows of the unchunked query for the whole hash set.
C3_ChunkedQueryComplete ==
    (pc \in {"querying", "aligning", "done"}) =>
        /\ Range(rows) = Unchunked(QueryHashes(fps) \ pending)
        /\ Len(rows) = Cardinality(Range(rows))
        /\ pc \in {"aligning", "done"} => Range(rows) = Unchunked(QueryHashes(fps))

C3_Witness ==
    /\ pc = "aligning"
    /\ Cardinality(QueryHashes(fps)) > MaxBatch
    /\ Len(rows) = Cardinality(QueryHashes(fps))

\* some stored hash equals some query hash
Matched == \E r \in fingerprints, p \in fps : r.hash = DecodeHex(p[1])

TopCount == IF result = <<>> THEN 0 ELSE result[1].count

\* C4: every confidence count/total of a finished request lies in [0, 1],
\* total being the number of unique query fingerprints, and the top
\* confidence is 0 (no match at all) exactly when no stored hash equals a
\* query hash.
C4_ConfidenceBounds ==
    pc = "done" =>
        /\ \A i \in DOMAIN result :
              /\ result[i].total = Cardinality(fps)
              /\ result[i].total > 0
              /\ 0 <= result[i].count /\ result[i].count <= result[i].total
        /\ TopCount = 0 <=> ~Matched

C4_Witness ==
    /\ pc = "done"
    /\ Len(result) = 2
    /\ result[1].count = 2 /\ result[1].total = 3
    /\ Matched

\* C5: once a query_many call of the request has failed, the request has
\* failed with StoreUnavailable, no result and none of the rows of the chunks
\* that succeeded are returned, and no further query is made.
C5_StoreFailureFails ==
    chunkFailed =>
        /\ pc = "failed"
        /\ error = "StoreUnavailable"
        /\ result = <<>>
        /\ rows = <<>>

C5_Witness ==
    /\ chunkFailed
    /\ pc = "failed"
    /\ pending # {} /\ pending # QueryHashes(fps)

\* the request's fingerprinting yields no fingerprint for any channel
ZeroFingerprints ==
    IF request.kind = "buffer" THEN request.content = "short"
    ELSE request.kind = "core" /\ error # "DecodeUpstreamError" /\ fps = {}

\* C6: a request whose fingerprinting yields zero fingerprints for every
\* channel ends with an empty result, no error and no store query.
C6_ZeroFingerprintsEmptyResult ==
    (pc \in {"done", "failed"} /\ ZeroFingerprints) =>
        /\ pc = "done"
        /\ error = "none"
        /\ result = <<>>
        /\ ~queried

\* a ranked list without the aligned offsets
Strip(r) == [i \in DOMAIN r |-> [song_id |-> r[i].song_id, count |-> r[i].count,
                                 total |-> r[i].total]]

\* C8 as stated: the ranked list is a function of the rows as a set:
\* whatever order they arrive in, the algorithm allows this list, with these
\* aligned offsets, and no other.
C8_ResultUnique ==
    pc = "done" =>
        \A o \in Orders(Range(rows)) :
            align_matches(mapper, o, Cardinality(fps)) = {result}

\* C8, amended: given the hash -> offset mapping, the lists the algorithm
\* allows do not depend on the order the rows arrive in; they all hold the
\* same songs with the same strengths in the same order (strength descending,
\* then song identifier ascending), and a song's aligned offset is the same
\* in all of them up to its sign.
C8_RankingDeterministic ==
    pc = "done" =>
        LET allowed == align_matches(mapper, rows, Cardinality(fps))
        IN  /\ result \in allowed
            /\ \A o \in Orders(Range(rows)) :
                  align_matches(mapper, o, Cardinality(fps)) = allowed
            /\ \A r \in allowed :
                  /\ Strip(r) = Strip(result)
                  /\ \A i \in DOMAIN r : Abs(r[i].offset) = Abs(result[i].offset)
            /\ \A i \in 1..(Len(result) - 1) :
                  \/ result[i].count > result[i + 1].count
                  \/ /\ result[i].count = result[i + 1].count
                     /\ result[i].song_id < result[i + 1].song_id

C8_Witness ==
    /\ pc = "done"
    /\ Len(result) = 2
    /\ result[1].count > result[2].count
    /\ result[1].song_id > result[2].song_id

(***************************************************************************)
(* Properties of the hasher (SpecHasher).                                  *)
(***************************************************************************)
HashesOf(fingerprintlist) == {fingerprintlist[i][1] : i \in DOMAIN fingerprintlist}

\* C7 as stated: after deduplication no hash occurs in two fingerprints, so
\* the mapping hash -> offset has as many entries as there are fingerprints.
C7_HashesUnique ==
    hpc = "mapped" =>
        /\ \A i, j \in DOMAIN hashed : hashed[i][1] = hashed[j][1] => i = j
        /\ Cardinality(DOMAIN hmap) = Len(hashed)

\* C7, amended: after deduplication no (hash, offset) pair occurs twice and
\* no emitted pair is lost; the mapping has one entry for each distinct hash,
\* at most as many as there are fingerprints, and maps the hash to one of the
\* offsets it occurs at.
C7_PairsUnique ==
    /\ hpc \in {"hashed", "mapped"} =>
          /\ \A i, j \in DOMAIN hashed : hashed[i] = hashed[j] => i = j
          /\ Range(hashed) = Range(Emit(peaks, 1))
    /\ hpc = "mapped" =>
          /\ DOMAIN hmap = HashesOf(hashed)
          /\ Cardinality(DOMAIN hmap) <= Len(hashed)
          /\ \A k \in DOMAIN hmap : <<k, hmap[k]>> \in Range(hashed)

C7_Witness ==
    /\ hpc = "mapped"
    /\ Len(Emit(peaks, 1)) > Len(hashed)
    /\ Cardinality(DOMAIN hmap) < Len(hashed)

====
